---- MODULE Spec2Model ----
(***************************************************************************)
(* A model of the neptune market-event pipeline:                           *)
(*   - the stream gateway's reconnect loops                                *)
(*       (src/neptune/alpaca/stream_api.py),                               *)
(*   - the schema registry ProtoParser                                     *)
(*       (src/neptune/interface/utilities/proto_utilities.py),             *)
(*   - the frame log writer TestSubscriber and reader TestDecoder          *)
(*       (src/neptune/interface/utilities/pub_sub_utilities.py),           *)
(*   - the endpoints ProtoParser.get_socket opens for TestSubscriber and   *)
(*       TestPublisher,                                                    *)
(*   - the replay of a frame log by TestPublisher.run.                     *)
(* Each part has its own specification (SpecGateway, SpecRegistry,         *)
(* SpecFrameLog, SpecDecode, SpecEndpoints, SpecReplay; SpecDispatch for   *)
(* the gateway's order events, SpecParameter for the comment tokens of a   *)
(* schema, SpecLookup for the calls on a built parser, SpecSessions for    *)
(* the writer sessions of one log directory, SpecQuery for the replay      *)
(* counter, SpecReplayFair for a scheduled replay) over the shared         *)
(* variables; a part's actions leave the other parts' variables unchanged. *)
(***************************************************************************)
EXTENDS Integers, Sequences, FiniteSets, TLC

VARIABLES
    \* ---- stream gateway ----
    entry,          \* how the gateway was started
    pc,             \* per thread: position in _run / run_connection
    depth,          \* per thread: nested run_connection frames on the stack
    runs,           \* per thread: invocations of Stream.run so far
    failed,         \* per thread: invocations of Stream.run that raised
    slept,          \* per thread: seconds slept in the current finally clause
    cause,          \* per thread: why the last run() ended
    subs,           \* handlers registered on the stream, in registration order
    stopRequested,  \* an explicit stop was requested
    dispatched,     \* the order events handed to process_order, with the outcome
    \* ---- schema registry ----
    blocks,         \* the schema document, as the blocks it was written from
    rpc,            \* "edit" | "built" | "failed"
    message_dict,   \* ProtoParser.message_dict
    capture,        \* the text a parameter's pattern captured, as characters
    gpc,            \* _get_parameter on capture: "idle" | "done"
    data,           \* the value _get_parameter returned
    calls,          \* the lookup and get_socket calls made on the built parser
    \* ---- frame log ----
    _msg,           \* TestSubscriber._msg: the session's message type
    _log_filepath,  \* the stem of the .plf file's name
    wpc,            \* TestSubscriber thread: "recv" | "dead"
    fp,             \* TestSubscriber.run's file handle: "none" | "open" | "closed"
    plfExists,      \* the .plf file exists
    plf,            \* the .plf file's bytes
    received,       \* envelopes the session received, in order
    csvExists,      \* the .csv sibling exists
    csv,            \* the records the decoder wrote to the .csv sibling
    converted,      \* columns of the decoder's table converted to timestamps
    decodes,        \* the outcome of each TestDecoder(folder) so far
    sessions,       \* when each TestSubscriber was constructed, in ms
    shelf,          \* the other .plf files of the log directory, by stem
    \* ---- endpoints ----
    opens,         \* the get_socket calls so far: who called, for what, the result
    spc,            \* TestSubscriber: position in __init__, then "running"
    sarg,           \* TestSubscriber's arguments msg and channel
    ssubs,          \* the SUB socket's subscriptions, one prefix per subscribe
    pubView,        \* the subscriptions the PUB socket has been told of
    squeue,         \* topics of the messages queued in the SUB socket
    delivered,      \* topics of the messages recv_multipart returned to run
    ppc,            \* TestPublisher: "new" | "bound" | "nosocket" | "failed" |
                    \* "AttributeError"
    \* ---- replay ----
    tpc,            \* TestPublisher.run: "idle" | "loop" | "done" | "crashed"
    rest,           \* the bytes of the file that run has not read yet
    proto_obj,      \* run's message object
    published,      \* the messages run sent, in order
    pauses,         \* the sleep after each frame read in the loop, in 0.1 ms
    _count,         \* TestPublisher._count
    _msgTime,       \* TestPublisher._msgTime
    _rate,          \* TestPublisher._rate
    rfp,            \* run's file handle: "none" | "open" | "closed"
    tmp,            \* the value `self._count += 1` has loaded
    qpc,            \* getMessageCount: "idle" | "zero"
    count,          \* getMessageCount's local count
    returned        \* the values getMessageCount returned, in order

gatewayVars ==
    <<entry, pc, depth, runs, failed, slept, cause, subs, stopRequested,
      dispatched>>
registryVars ==
    <<blocks, rpc, message_dict, capture, gpc, data, calls>>
frameLogVars ==
    <<_msg, _log_filepath, wpc, fp, plfExists, plf, received, csvExists, csv,
      converted, decodes, sessions, shelf>>
endpointVars == <<opens, spc, sarg, ssubs, pubView, squeue, delivered, ppc>>
replayVars ==
    <<tpc, rest, proto_obj, published, pauses, _count, _msgTime, _rate, rfp,
      tmp, qpc, count, returned>>
vars == <<gatewayVars, registryVars, frameLogVars, endpointVars, replayVars>>

(***************************************************************************)
(* Bounds of the model.                                                    *)
(***************************************************************************)
\* The interpreter's recursion limit (sys.getrecursionlimit(), 1000 by
\* default), scaled down: the number of nested run_connection frames a
\* thread's stack can hold.
RecursionLimit == 3
\* Blocks in a schema document.
MaxBlocks == 3
\* Messages one writer session receives.
MaxMsgs == 3

(***************************************************************************)
(* Stream gateway: AlpacaWebSocket and TradeUpdateStream.                  *)
(***************************************************************************)
\* "thr" is the thread AlpacaWebSocket.__init__ starts; "main" is the thread
\* that constructs the gateway (and, in Run and TradeUpdateStream.start,
\* drives a connection loop itself).
Threads == {"thr", "main"}

\* The three ways the source starts a gateway.
Entries == {"ctor", "Run", "TradeUpdateStream"}

\* time.sleep(3) in every run_connection's finally clause.
ReconnectDelay == 3

\* The tradable-symbol universe (SymbolUniverse), as symbols.
Universe == {"AAPL", "MSFT"}

Channels(s) == {s[i].channel : i \in 1..Len(s)}

\* The handler _run registers: process_order (AlpacaWebSocket) or
\* handle_trade_update (TradeUpdateStream).
HandlerOf(e) ==
    IF e = "TradeUpdateStream" THEN "handle_trade_update" ELSE "process_order"

\* pc after construction: __init__ starts thr on _run; Run then calls
\* run_connection on main; TradeUpdateStream.start runs _run on main.
InitialPc(e) ==
    CASE e = "ctor" -> [t \in Threads |-> IF t = "thr" THEN "init" ELSE "idle"]
      [] e = "Run"  -> [t \in Threads |-> IF t = "thr" THEN "init" ELSE "start"]
      [] OTHER      -> [t \in Threads |-> IF t = "main" THEN "init" ELSE "idle"]

GatewayStart(e) ==
    /\ entry = e
    /\ pc = InitialPc(e)
    /\ depth = [t \in Threads |-> 0]
    /\ runs = [t \in Threads |-> 0]
    /\ failed = [t \in Threads |-> 0]
    /\ slept = [t \in Threads |-> 0]
    /\ cause = [t \in Threads |-> "none"]
    /\ subs = <<>>
    /\ stopRequested = FALSE
    /\ dispatched = <<>>

GatewayInit == \E e \in Entries : GatewayStart(e)

\* _run up to the call of run_connection: the event loop is set up and the
\* trade-update handler is registered, once.
Subscribe(t) ==
    /\ pc[t] = "init"
    /\ subs' = Append(subs, [channel |-> <<"trade_updates", "*">>, handler |-> HandlerOf(entry)])
    /\ pc' = [pc EXCEPT ![t] = "start"]
    /\ UNCHANGED <<entry, failed, depth, runs, slept, cause, stopRequested>>
    /\ UNCHANGED dispatched
    /\ UNCHANGED <<registryVars, frameLogVars, endpointVars, replayVars>>

\* The first call of run_connection: the try clause invokes Stream.run.
RunConnection(t) ==
    /\ pc[t] = "start"
    /\ pc' = [pc EXCEPT ![t] = "running"]
    /\ depth' = [depth EXCEPT ![t] = 1]
    /\ runs' = [runs EXCEPT ![t] = @ + 1]
    /\ UNCHANGED <<entry, failed, slept, cause, subs, stopRequested>>
    /\ UNCHANGED dispatched
    /\ UNCHANGED <<registryVars, frameLogVars, endpointVars, replayVars>>

\* run() raises: except Exception logs it, and the finally clause begins.
RunRaises(t) ==
    /\ pc[t] = "running"
    /\ pc' = [pc EXCEPT ![t] = "finally"]
    /\ cause' = [cause EXCEPT ![t] = "exception"]
    /\ failed' = [failed EXCEPT ![t] = @ + 1]
    /\ slept' = [slept EXCEPT ![t] = 0]
    /\ UNCHANGED <<entry, depth, runs, subs, stopRequested>>
    /\ UNCHANGED dispatched
    /\ UNCHANGED <<registryVars, frameLogVars, endpointVars, replayVars>>

\* run() returns without raising (the sockets were closed): no except clause
\* runs, and the finally clause begins.
RunReturns(t) ==
    /\ pc[t] = "running"
    /\ pc' = [pc EXCEPT ![t] = "finally"]
    /\ cause' = [cause EXCEPT ![t] = "return"]
    /\ slept' = [slept EXCEPT ![t] = 0]
    /\ UNCHANGED <<entry, failed, depth, runs, subs, stopRequested>>
    /\ UNCHANGED dispatched
    /\ UNCHANGED <<registryVars, frameLogVars, endpointVars, replayVars>>

\* A user interrupt while Run's run_connection is in its try clause: the
\* handler closes the sockets and calls exit(0); the SystemExit it raises is
\* pending while the finally clause runs.
KeyboardInterrupt ==
    /\ entry = "Run"
    /\ pc["main"] = "running"
    /\ pc' = [pc EXCEPT !["main"] = "finally"]
    /\ cause' = [cause EXCEPT !["main"] = "interrupt"]
    /\ slept' = [slept EXCEPT !["main"] = 0]
    /\ stopRequested' = TRUE
    /\ UNCHANGED <<entry, failed, depth, runs, subs>>
    /\ UNCHANGED dispatched
    /\ UNCHANGED <<registryVars, frameLogVars, endpointVars, replayVars>>

\* A user interrupt during time.sleep in a finally clause of the main
\* thread: nothing catches it there, every frame unwinds and the thread ends.
InterruptInFinally ==
    /\ entry \in {"Run", "TradeUpdateStream"}
    /\ pc["main"] = "finally"
    /\ pc' = [pc EXCEPT !["main"] = "exited"]
    /\ depth' = [depth EXCEPT !["main"] = 0]
    /\ stopRequested' = TRUE
    /\ UNCHANGED <<entry, failed, runs, slept, cause, subs>>
    /\ UNCHANGED dispatched
    /\ UNCHANGED <<registryVars, frameLogVars, endpointVars, replayVars>>

\* One second passes for every thread asleep in a finally clause.
Tick ==
    /\ \E t \in Threads : pc[t] = "finally" /\ slept[t] < ReconnectDelay
    /\ slept' = [t \in Threads |->
                    IF pc[t] = "finally" /\ slept[t] < ReconnectDelay
                    THEN slept[t] + 1 ELSE slept[t]]
    /\ UNCHANGED <<entry, failed, pc, depth, runs, cause, subs, stopRequested>>
    /\ UNCHANGED dispatched
    /\ UNCHANGED <<registryVars, frameLogVars, endpointVars, replayVars>>

\* Reconnect with the registration of _run repeated at every reconnect.
ReconnectResubscribes(t) ==
    /\ pc[t] = "finally"
    /\ slept[t] = ReconnectDelay
    /\ IF depth[t] < RecursionLimit
       THEN /\ pc' = [pc EXCEPT ![t] = "running"]
            /\ depth' = [depth EXCEPT ![t] = @ + 1]
            /\ runs' = [runs EXCEPT ![t] = @ + 1]
            /\ subs' = Append(subs, [channel |-> <<"trade_updates", "*">>,
                                     handler |-> HandlerOf(entry)])
       ELSE /\ pc' = [pc EXCEPT ![t] = "crashed"]
            /\ depth' = [depth EXCEPT ![t] = 0]
            /\ runs' = runs
            /\ subs' = subs
    /\ UNCHANGED <<entry, failed, slept, cause, stopRequested>>
    /\ UNCHANGED dispatched
    /\ UNCHANGED <<registryVars, frameLogVars, endpointVars, replayVars>>

\* The finally clause after its sleep: it calls run_connection again, one
\* frame deeper. With the stack full the call raises RecursionError, which
\* no frame catches (every caller is in its finally clause): the thread ends.
Reconnect(t) ==
    /\ pc[t] = "finally"
    /\ slept[t] = ReconnectDelay
    /\ IF depth[t] < RecursionLimit
       THEN /\ pc' = [pc EXCEPT ![t] = "running"]
            /\ depth' = [depth EXCEPT ![t] = @ + 1]
            /\ runs' = [runs EXCEPT ![t] = @ + 1]
       ELSE /\ pc' = [pc EXCEPT ![t] = "crashed"]
            /\ depth' = [depth EXCEPT ![t] = 0]
            /\ runs' = runs
    /\ UNCHANGED <<entry, failed, slept, cause, subs, stopRequested>>
    /\ UNCHANGED dispatched
    /\ UNCHANGED <<registryVars, frameLogVars, endpointVars, replayVars>>

\* AlpacaWebSocket.stop / TradeUpdateStream.stop, called by the owner of a
\* started gateway. TradeUpdateStream.stop is `pass`. AlpacaWebSocket.stop sets
\* self.event (an attribute nothing in the class defines) and closes the
\* sockets; whether it raises at the first or gets to the second, no
\* run_connection reads a stop flag: a closed socket shows only as run()
\* returning or raising (RunReturns, RunRaises).
Stop ==
    /\ ~stopRequested
    /\ \E t \in Threads : pc[t] \in {"running", "finally"}
    /\ stopRequested' = TRUE
    /\ UNCHANGED <<entry, failed, pc, depth, runs, slept, cause, subs>>
    /\ UNCHANGED dispatched
    /\ UNCHANGED <<registryVars, frameLogVars, endpointVars, replayVars>>

\* Order events the stream hands to the trade-update handler.
MaxEvents == 2

\* The table of utilities.py from Alpaca's event names to order statuses.
ORDER_STATUS_TRANSFORM ==
    [s \in {"fill", "partial_fill", "order_replace_rejected",
            "order_cancel_rejected"} |->
        CASE s = "fill" -> "filled"
          [] s = "partial_fill" -> "partially_filled"
          [] s = "order_replace_rejected" -> "rejected"
          [] OTHER -> "canceled"]

\* Values of the event field of a trade update: the four keys of the table
\* and two that are not keys.
EventNames == DOMAIN ORDER_STATUS_TRANSFORM \cup {"new", "canceled"}

\* The _raw dict of a trade update: hasOrder - it has the key 'order';
\* event - the value under the key 'event', "absent" when it has no such key.
OrderEvents == [hasOrder : BOOLEAN, event : EventNames \cup {"absent"}]

\* process_order: order = _raw['order']; order['status'] = _raw['event'];
\* the order is logged. Either subscript raises KeyError when the key is
\* missing, and nothing in process_order catches it.
process_order(order_data) ==
    IF ~order_data.hasOrder \/ order_data.event = "absent"
    THEN [raised |-> TRUE, status |-> ""]
    ELSE [raised |-> FALSE, status |-> order_data.event]

\* The stream, inside run(), hands an event to the registered handler.
\* An exception the handler lets out is the stream library's to deal with:
\* it is swallowed there and run() goes on, or it ends run().
Dispatch(t, order_data, swallowed) ==
    /\ entry = "ctor"
    /\ pc[t] = "running"
    /\ Len(dispatched) < MaxEvents
    /\ LET r == process_order(order_data)
       IN  /\ dispatched' = Append(dispatched,
                  [event |-> order_data, raised |-> r.raised,
                   status |-> r.status])
           /\ IF r.raised /\ ~swallowed
              THEN /\ pc' = [pc EXCEPT ![t] = "finally"]
                   /\ cause' = [cause EXCEPT ![t] = "exception"]
                   /\ failed' = [failed EXCEPT ![t] = @ + 1]
                   /\ slept' = [slept EXCEPT ![t] = 0]
              ELSE UNCHANGED <<pc, cause, failed, slept>>
    /\ UNCHANGED <<entry, depth, runs, subs, stopRequested>>
    /\ UNCHANGED <<registryVars, frameLogVars, endpointVars, replayVars>>

GatewayNext ==
    \/ \E t \in Threads : Subscribe(t)
    \/ \E t \in Threads : RunConnection(t)
    \/ \E t \in Threads : RunRaises(t)
    \/ \E t \in Threads : RunReturns(t)
    \/ \E t \in Threads : Reconnect(t)
    \/ KeyboardInterrupt
    \/ InterruptInFinally
    \/ Tick
    \/ Stop

\* The gateway AlpacaWebSocket() starts, with the events its stream
\* dispatches.
DispatchNext ==
    \/ \E t \in Threads : Subscribe(t)
    \/ \E t \in Threads : RunConnection(t)
    \/ \E t \in Threads : RunRaises(t)
    \/ \E t \in Threads : RunReturns(t)
    \/ \E t \in Threads : Reconnect(t)
    \/ Tick
    \/ \E t \in Threads, order_data \in OrderEvents, swallowed \in BOOLEAN :
            Dispatch(t, order_data, swallowed)

(***************************************************************************)
(* Schema registry: ProtoParser.                                           *)
(*                                                                         *)
(* The schema document is a sequence of blocks; Text() spells a document   *)
(* out as the tokens the parser's regular expressions react to, and the    *)
(* parser works on the tokens alone (it never sees the block boundaries).  *)
(***************************************************************************)
TypeNames == {"Order", "Aggregate", "Trade"}

\* Values of an @port parameter, as written in the document.
PortTexts == {"5556", "5557", "70000", "abc"}

\* Values of an @message parameter.
NameTexts == {"Order update"}

\* A block of the document:
\*   annotated - a comment with @message, @port, @channel and @summary,
\*               immediately followed by a message definition;
\*   noport    - as annotated, but the comment has no @port;
\*   markeronly - the annotation comment alone, with its four parameters
\*               and no definition after it;
\*   unmarked  - a message definition with no annotation;
\*   enum      - an enum definition.
\* nested: the message definition holds a nested enum, that is an inner
\* pair of braces.
AnnotatedBlocks ==
    [kind : {"annotated"}, type : TypeNames, name : NameTexts,
     port : PortTexts, nested : BOOLEAN]
NoPortBlocks ==
    [kind : {"noport"}, type : TypeNames, name : NameTexts, port : {""},
     nested : {FALSE}]
MarkerOnlyBlocks ==
    [kind : {"markeronly"}, type : {""}, name : NameTexts, port : {"5556"},
     nested : {FALSE}]
UnmarkedBlocks ==
    [kind : {"unmarked"}, type : TypeNames, name : {""}, port : {""},
     nested : BOOLEAN]
EnumBlocks ==
    [kind : {"enum"}, type : {"OrderSide"}, name : {""}, port : {""},
     nested : {FALSE}]
Blocks ==
    AnnotatedBlocks \cup NoPortBlocks \cup MarkerOnlyBlocks
        \cup UnmarkedBlocks \cup EnumBlocks

\* Tokens: a parameter "@key value", the opening of a message definition
\* "message T {", the opening of another braced definition "enum E {", and
\* a closing brace "}".
Param(key, val) == [t |-> "param", key |-> key, val |-> val]
MsgOpen(type)   == [t |-> "message", key |-> type, val |-> ""]
EnumOpen        == [t |-> "enum", key |-> "", val |-> ""]
Close           == [t |-> "}", key |-> "", val |-> ""]

MessageTokens(b) ==
    <<MsgOpen(b.type)>> \o (IF b.nested THEN <<EnumOpen, Close>> ELSE <<>>)
        \o <<Close>>

BlockTokens(b) ==
    CASE b.kind = "annotated" ->
            <<Param("message", b.name), Param("port", b.port),
              Param("channel", "ch"), Param("summary", "sum")>>
                \o MessageTokens(b)
      [] b.kind = "noport" ->
            <<Param("message", b.name),
              Param("channel", "ch"), Param("summary", "sum")>>
                \o MessageTokens(b)
      [] b.kind = "markeronly" ->
            <<Param("message", b.name), Param("port", b.port),
              Param("channel", "ch"), Param("summary", "sum")>>
      [] b.kind = "unmarked" -> MessageTokens(b)
      [] OTHER -> <<EnumOpen, Close>>

RECURSIVE Text(_)
Text(bs) == IF bs = <<>> THEN <<>> ELSE BlockTokens(Head(bs)) \o Text(Tail(bs))

\* MESSAGE_BLOCK with a greedy body, /*(.*});? : one chunk, up to the last
\* "}" of the document.
RECURSIVE MessageBlockGreedy(_)
MessageBlockGreedy(txt) ==
    IF txt = <<>> THEN <<>>
    ELSE IF txt[Len(txt)].t = "}" THEN <<txt>>
    ELSE MessageBlockGreedy(SubSeq(txt, 1, Len(txt) - 1))

\* MESSAGE_BLOCK.findall(raw_txt), MESSAGE_BLOCK = /*(.*?});? : the lazy
\* body ends each chunk at the first "}" after the previous chunk; what
\* follows the last "}" is in no chunk.
RECURSIVE MessageBlockFrom(_, _)
MessageBlockFrom(txt, cur) ==
    IF txt = <<>> THEN <<>>
    ELSE IF Head(txt).t = "}"
         THEN <<Append(cur, Head(txt))>> \o MessageBlockFrom(Tail(txt), <<>>)
         ELSE MessageBlockFrom(Tail(txt), Append(cur, Head(txt)))

MESSAGE_BLOCK(txt) == MessageBlockFrom(txt, <<>>)

\* "@message" in m
HasMarker(m) == \E i \in 1..Len(m) : m[i].t = "param" /\ m[i].key = "message"

\* re.findall(rf'@{token}\s+([^@*]*)', input): the values of the parameters
\* named token, in order.
ParamValues(m, token) ==
    LET idx == {i \in 1..Len(m) : m[i].t = "param" /\ m[i].key = token}
        RECURSIVE Collect(_)
        Collect(i) ==
            IF i > Len(m) THEN <<>>
            ELSE (IF i \in idx THEN <<m[i].val>> ELSE <<>>) \o Collect(i + 1)
    IN  Collect(1)

\* MESSAGE_DEF.findall(input): the type names of the message definitions
\* of the chunk that are closed inside it, in order. A chunk ends with its
\* only "}", so every "message T {" of the chunk is closed.
MESSAGE_DEF(m) ==
    LET RECURSIVE Collect(_)
        Collect(i) ==
            IF i > Len(m) THEN <<>>
            ELSE (IF m[i].t = "message" /\ (\E j \in (i + 1)..Len(m) : m[j].t = "}")
                  THEN <<m[i].key>> ELSE <<>>) \o Collect(i + 1)
    IN  Collect(1)

\* _get_parameter raises IndexError when the chunk has no such parameter,
\* and _parse_message raises it when the chunk has no message definition.
ParseRaises(m) ==
    \/ \E token \in {"message", "port", "channel", "summary"} :
            ParamValues(m, token) = <<>>
    \/ MESSAGE_DEF(m) = <<>>

\* The entry _parse_message stores, keyed by the declared type name.
EntryKey(m) == MESSAGE_DEF(m)[1]
EntryOf(m) ==
    [Name    |-> ParamValues(m, "message")[1],
     Port    |-> ParamValues(m, "port")[1],
     Channel |-> ParamValues(m, "channel")[1],
     Summary |-> ParamValues(m, "summary")[1]]

NoDict == [k \in {} |-> 0]

\* Python's None.
None == [kind |-> "None"]

\* lookup(message): self.message_dict.get(message, None)
lookup(dict, message) ==
    IF message \in DOMAIN dict THEN dict[message] ELSE None

\* The loop of _parse_proto over the chunks: the registry after them, or
\* "raised" when a _parse_message raised.
RECURSIVE ParseChunks(_, _)
ParseChunks(ms, dict) ==
    IF ms = <<>> THEN [raised |-> FALSE, dict |-> dict]
    ELSE IF ~HasMarker(Head(ms)) THEN ParseChunks(Tail(ms), dict)
    ELSE IF ParseRaises(Head(ms)) THEN [raised |-> TRUE, dict |-> dict]
    ELSE ParseChunks(Tail(ms),
            [k \in DOMAIN dict \cup {EntryKey(Head(ms))} |->
                IF k = EntryKey(Head(ms)) THEN EntryOf(Head(ms)) ELSE dict[k]])

_parse_proto(txt) == ParseChunks(MESSAGE_BLOCK(txt), NoDict)

DeclaredTypes(bs) == {bs[i].type : i \in 1..Len(bs)}

\* get_proto_obj(object_type): eval("pb2.{}()") raises for a name the
\* compiled schema does not define.
GetProtoObjRaises(bs, object_type) == object_type \notin DeclaredTypes(bs)

\* The characters of a parameter's text: a letter, a blank and a newline.
MaxTextLen == 5
Characters == {"a", " ", "nl"}
Captures == UNION {[1..k -> Characters] : k \in 0..MaxTextLen}

\* \s of the regular expressions.
IsSpace(c) == c \in {" ", "nl"}

\* str.strip()
RECURSIVE LStrip(_)
LStrip(txt) ==
    IF txt # <<>> /\ IsSpace(Head(txt)) THEN LStrip(Tail(txt)) ELSE txt
RECURSIVE RStrip(_)
RStrip(txt) ==
    IF txt # <<>> /\ IsSpace(txt[Len(txt)])
    THEN RStrip(SubSeq(txt, 1, Len(txt) - 1)) ELSE txt
Strip(txt) == RStrip(LStrip(txt))

IsNotNewline(c) == c # "nl"
\* str.replace('\n', '')
RemoveNewlines(txt) == SelectSeq(txt, IsNotNewline)

\* re.sub(r'\s+', ' ', txt): every maximal run of whitespace becomes one
\* blank.
RECURSIVE CollapseSpace(_)
CollapseSpace(txt) ==
    IF txt = <<>> THEN <<>>
    ELSE IF IsSpace(Head(txt))
         THEN <<" ">> \o CollapseSpace(LStrip(txt))
         ELSE <<Head(txt)>> \o CollapseSpace(Tail(txt))

\* _get_parameter, after findall(...)[0]: strip, replace('\n', ''), and
\* re.sub of the runs of whitespace.
_get_parameter(captured) == CollapseSpace(RemoveNewlines(Strip(captured)))

ParameterStart(captured) ==
    /\ capture = captured
    /\ gpc = "idle"
    /\ data = <<>>

\* One call of _get_parameter, on the text the pattern captured.
GetParameter ==
    /\ gpc = "idle"
    /\ data' = _get_parameter(capture)
    /\ gpc' = "done"
    /\ UNCHANGED <<blocks, rpc, message_dict, capture, calls>>
    /\ UNCHANGED <<gatewayVars, frameLogVars, endpointVars, replayVars>>

ParameterNext == GetParameter

RegistryInit ==
    /\ blocks = <<>>
    /\ rpc = "edit"
    /\ message_dict = NoDict
    /\ ParameterStart(<<>>)
    /\ calls = <<>>

\* The schema document grows by a block. A document that the protobuf
\* compiler accepts declares no type name twice. An annotation comment
\* directly followed by a message definition is an annotated block, so no
\* unmarked block follows a markeronly block.
WriteBlock(b) ==
    /\ rpc = "edit"
    /\ Len(blocks) < MaxBlocks
    /\ b.type \notin DeclaredTypes(blocks)
    /\ ~(/\ b.kind = "unmarked"
          /\ blocks # <<>>
          /\ blocks[Len(blocks)].kind = "markeronly")
    /\ blocks' = Append(blocks, b)
    /\ UNCHANGED <<rpc, message_dict, capture, gpc, data, calls>>
    /\ UNCHANGED <<gatewayVars, frameLogVars, endpointVars, replayVars>>

\* ProtoParser(): message_dict starts empty and _parse_proto fills it; an
\* exception leaves the caller without a parser object.
ProtoParser ==
    /\ rpc = "edit"
    /\ LET r == _parse_proto(Text(blocks))
       IN  /\ rpc' = IF r.raised THEN "failed" ELSE "built"
           /\ message_dict' = IF r.raised THEN NoDict ELSE r.dict
    /\ UNCHANGED <<blocks, capture, gpc, data, calls>>
    /\ UNCHANGED <<gatewayVars, frameLogVars, endpointVars, replayVars>>

RegistryNext ==
    \/ \E b \in Blocks : WriteBlock(b)
    \/ ProtoParser

(***************************************************************************)
(* Frame log: TestSubscriber (writer) and TestDecoder (reader).            *)
(*                                                                         *)
(* A message is [n |-> its length in bytes, b |-> its bytes]; the bytes of *)
(* the one message too long for a frame are never written and are left     *)
(* out. A serialized envelope's first byte stands for its hdr.utc_time, in *)
(* seconds (the field is in milliseconds), and its last byte for its sym;  *)
(* an envelope with every field at its default serializes to no bytes.     *)
(***************************************************************************)
\* The length prefix: to_bytes(2, byteorder='big', signed=False).
LenBytes == 2
MaxFrameLen == 256 ^ LenBytes - 1

\* Byte strings no envelope serializes to: ParseFromString raises on them.
InvalidPayloads == {<<255>>}

Payloads == {<<>>, <<1>>, <<2>>, <<1, 2>>} \cup InvalidPayloads

Msgs == {[n |-> Len(b), b |-> b] : b \in Payloads}
            \cup {[n |-> MaxFrameLen + 1, b |-> <<>>]}

\* proto_obj.ParseFromString raises DecodeError.
ParseFails(b) == b \in InvalidPayloads

\* The message object after ParseFromString(b).
ParseFromString(b) ==
    [hdr_set  |-> b # <<>>,
     utc_time |-> IF b # <<>> THEN b[1] * 1000 ELSE 0,
     sym      |-> IF b # <<>> THEN b[Len(b)] ELSE 0,
     data     |-> b]

\* (len(msg)).to_bytes(2, byteorder='big', signed=False), for a length that
\* fits.
ToBytesLittleEndian(n) == <<n % 256, n \div 256>>
ToBytes(n) == <<n \div 256, n % 256>>

\* int.from_bytes(bytes=fp.read(2), byteorder='big', signed=False): of the
\* bytes read, which are fewer than two at the end of the file.
FromBytes(bs) ==
    IF bs = <<>> THEN 0
    ELSE IF Len(bs) = 1 THEN bs[1]
    ELSE bs[1] * 256 + bs[2]

Min(a, b) == IF a < b THEN a ELSE b

\* The except clause of TestSubscriber.run: fp.flush(); fp.close(). With fp
\* still None, and with fp already closed, flush raises out of the clause
\* and the thread ends.
HandlerEndsThread(h) == h \in {"none", "closed"}

\* The handle after the except clause: an open handle is closed.
HandleLeftOpen(h) == h
HandleAfterError(h) == IF h = "open" THEN "closed" ELSE h

\* A handle that is not open is opened.
NeedsOpenUnlessOpen(h) == h # "open"
\* `if not fp`: true of None; a file object is true, closed or not.
NeedsOpen(h) == h = "none"

\* The schema file the log sessions run against: SchemaDoc's types and one
\* whose name has an underscore in it.
LogSchema ==
    <<[kind |-> "annotated", type |-> "Order", name |-> "Order update",
       port |-> "5556", nested |-> FALSE],
      [kind |-> "annotated", type |-> "Order_Update", name |-> "Order update",
       port |-> "5557", nested |-> FALSE]>>

\* The msg of a TestSubscriber: a type of the schema.
WriterTypes == {LogSchema[i].type : i \in 1..Len(LogSchema)}

\* datetime.now() when a TestSubscriber is constructed, in milliseconds past
\* 2024-01-02 03:04:05.
Instants == {0, 500, 1000}

\* datetime.now().strftime("%Y%m%dT%H%M%S"): the format has no field below
\* the second.
strftime(now) ==
    IF now \div 1000 = 0 THEN "20240102T030405" ELSE "20240102T030406"

Timestamps == {strftime(now) : now \in Instants}

\* A log directory with no other file.
NoFiles == [stem \in {} |-> <<>>]

\* name.split('_'): the pieces of a name between its underscores.
Split(name) ==
    IF name = "Order_Update" THEN <<"Order", "Update">> ELSE <<name>>

\* '{}_{}.plf'.format(msg, timestamp), less the suffix: the stem, as the
\* two strings it is formatted from.
LogName(msg, timestamp) == [msg |-> msg, timestamp |-> timestamp]

\* filepath.stem.split('_')
SplitStem(stem) == Split(stem.msg) \o <<stem.timestamp>>

\* dateutil.parser.isoparse(s) raises ValueError unless s is an ISO date.
IsoparseRaises(s) == s \notin Timestamps

\* parse_plf_filestring(filepath): the first piece of the stem is the type
\* and the second is parsed as the date.
parse_plf_filestring(stem) ==
    LET parts == SplitStem(stem)
    IN  IF IsoparseRaises(parts[2])
        THEN [raised |-> TRUE, type |-> ""]
        ELSE [raised |-> FALSE, type |-> parts[1]]

\* TestSubscriber(msg): the name of the log file is made in __init__.
WriterStart(msg) ==
    /\ _msg = msg
    /\ \E now \in Instants :
          /\ sessions = <<now>>
          /\ _log_filepath = LogName(msg, strftime(now))
    /\ shelf = NoFiles
    /\ wpc = "recv"
    /\ fp = "none"
    /\ plfExists = FALSE
    /\ plf = <<>>
    /\ received = <<>>

WriterInit ==
    /\ _msg = "Order"
    /\ _log_filepath = LogName("Order", "20240102T030405")
    /\ sessions = <<0>>
    /\ shelf = NoFiles
    /\ wpc = "recv"
    /\ fp = "none"
    /\ plfExists = FALSE
    /\ plf = <<>>
    /\ received = <<>>

\* One iteration of TestSubscriber.run's loop, on message m. ioerr: the
\* write of the payload fails in the operating system, after the prefix was
\* accepted.
Receive(m, ioerr) ==
    /\ wpc = "recv"
    /\ Len(received) < MaxMsgs
    /\ received' = Append(received, m)
    /\ IF ParseFails(m.b)
       THEN \* ParseFromString raised, before the file is touched
            /\ wpc' = IF HandlerEndsThread(fp) THEN "dead" ELSE "recv"
            /\ fp' = HandleAfterError(fp)
            /\ UNCHANGED <<plfExists, plf>>
       ELSE LET opened == NeedsOpen(fp)    \* `if not fp: fp = open(.., 'wb')`
                fp1    == IF opened THEN "open" ELSE fp
                plf1   == IF opened THEN <<>> ELSE plf
            IN  /\ plfExists' = (plfExists \/ opened)
                /\ IF m.n > MaxFrameLen \/ fp1 = "closed"
                   THEN \* to_bytes raised OverflowError, or write raised
                        \* ValueError on the closed handle
                        /\ wpc' = IF HandlerEndsThread(fp1) THEN "dead" ELSE "recv"
                        /\ fp' = HandleAfterError(fp1)
                        /\ plf' = plf1
                   ELSE IF ioerr
                   THEN \* the handler's flush brings the prefix to the file
                        /\ wpc' = "recv"
                        /\ fp' = HandleAfterError(fp1)
                        /\ plf' = plf1 \o ToBytes(m.n)
                   ELSE /\ wpc' = "recv"
                        /\ fp' = "open"
                        /\ plf' = plf1 \o ToBytes(m.n) \o m.b
    /\ UNCHANGED <<_msg, _log_filepath, csvExists, csv, converted, decodes>>
    /\ UNCHANGED <<sessions, shelf>>
    /\ UNCHANGED <<gatewayVars, registryVars, endpointVars, replayVars>>

\* The scan of _decode_plf: the byte strings it hands to ParseFromString,
\* in order. fp.read returns what is left when the file ends early.
RECURSIVE Frames(_)
Frames(bytes) ==
    LET msg_size == FromBytes(SubSeq(bytes, 1, Min(LenBytes, Len(bytes))))
        stop     == Min(LenBytes + msg_size, Len(bytes))
    IN  IF msg_size = 0 THEN <<>>
        ELSE <<SubSeq(bytes, LenBytes + 1, stop)>>
                \o Frames(SubSeq(bytes, stop + 1, Len(bytes)))

\* The JSON name MessageToDict gives a field: it is called without
\* preserving_proto_field_name, so names come out in lowerCamelCase.
JsonNamePreserved(field) == field
JsonName(field) == IF field = "utc_time" THEN "utcTime" ELSE field

\* MessageToDict(proto_obj, including_default_value_fields=True): a message
\* field that is not set (hdr) is left out.
MessageToDict(obj) ==
    IF obj.hdr_set
    THEN (JsonName("hdr") :> (JsonName("utc_time") :> obj.utc_time))
            @@ (JsonName("data") :> obj.data)
    ELSE (JsonName("data") :> obj.data)

\* d['hdrTime'] = d['hdr']['utc_time'] raises KeyError unless both keys are
\* there.
HoistRaises(d) ==
    ~("hdr" \in DOMAIN d /\ "utc_time" \in DOMAIN d["hdr"])

\* d['hdrTime'] = d['hdr']['utc_time']; del d['hdr']
Hoist(d) == [hdrTime |-> d["hdr"]["utc_time"], data |-> d["data"]]

\* The try clause of _decode_plf on one frame: the records it appends to
\* msg_buffer (none when it raises).
FrameRecords(b) ==
    IF ParseFails(b) THEN <<>>
    ELSE LET d == MessageToDict(ParseFromString(b))
         IN  IF HoistRaises(d) THEN <<>> ELSE <<Hoist(d)>>

RECURSIVE RecordsOf(_)
RecordsOf(fs) ==
    IF fs = <<>> THEN <<>> ELSE FrameRecords(Head(fs)) \o RecordsOf(Tail(fs))

\* msg_buffer at the end of _decode_plf's loop.
_decode_plf(bytes) == RecordsOf(Frames(bytes))

\* The columns of pd.DataFrame(msg_buffer): the keys of the records, none
\* for an empty buffer.
Columns(records) == IF records = <<>> THEN {} ELSE DOMAIN records[1]

\* The try clause after the scan: the columns it converts with
\* pd.to_datetime. dtype_info['Fields'] raises KeyError for an entry without
\* that key, df[k] raises KeyError for a column the table does not have, and
\* `except Exception: pass` ends the clause there.
ConvertedColumns(dtype_info, columns) ==
    IF dtype_info # None
    THEN IF "Fields" \notin DOMAIN dtype_info THEN {}
         ELSE LET posix == {k \in DOMAIN dtype_info.Fields :
                                dtype_info.Fields[k].posix_ms}
              IN  IF posix \cup {"hdrTime"} \subseteq columns
                  THEN posix \cup {"hdrTime"}
                  ELSE posix \cap columns
    ELSE IF "hdrTime" \in columns THEN {"hdrTime"} ELSE {}

DecoderInit ==
    /\ csvExists = FALSE
    /\ csv = <<>>
    /\ converted = {}
    /\ decodes = <<>>

\* TestDecoder(folder) calls made on one folder.
MaxPasses == 2

\* TestDecoder(folder): _get_file_list takes type and date from the name of
\* the folder's .plf file and notes whether its .csv sibling exists; a file
\* without the sibling is decoded by _decode_plf, which builds the registry,
\* looks the type up, makes the message object, scans the file, converts
\* the time columns and writes the table to the sibling. An exception of
\* parse_plf_filestring, ProtoParser() or get_proto_obj ends the constructor.
TestDecoder ==
    /\ plfExists
    /\ Len(decodes) < MaxPasses
    /\ LET plf_info   == parse_plf_filestring(_log_filepath)
           proto_info == _parse_proto(Text(blocks))
       IN  IF plf_info.raised
           THEN /\ decodes' = Append(decodes, "raised")
                /\ UNCHANGED <<csvExists, csv, converted>>
           ELSE IF csvExists
           THEN /\ decodes' = Append(decodes, "skipped")
                /\ UNCHANGED <<csvExists, csv, converted>>
           ELSE IF proto_info.raised \/ GetProtoObjRaises(blocks, plf_info.type)
           THEN /\ decodes' = Append(decodes, "raised")
                /\ UNCHANGED <<csvExists, csv, converted>>
           ELSE /\ decodes' = Append(decodes, "decoded")
                /\ csv' = _decode_plf(plf)
                /\ csvExists' = TRUE
                /\ converted' =
                      ConvertedColumns(lookup(proto_info.dict, plf_info.type),
                                       Columns(_decode_plf(plf)))
    /\ UNCHANGED <<_msg, _log_filepath, wpc, fp, plfExists, plf, received>>
    /\ UNCHANGED <<sessions, shelf>>
    /\ UNCHANGED <<gatewayVars, registryVars, endpointVars, replayVars>>

FrameLogNext ==
    \/ \E m \in Msgs, ioerr \in BOOLEAN : Receive(m, ioerr)
    \/ TestDecoder

\* TestSubscriber objects constructed on one log directory.
MaxSessions == 2

\* The .plf files of the log directory, by stem.
LogFiles == IF plfExists THEN (_log_filepath :> plf) @@ shelf ELSE shelf

\* TestSubscriber(msg) constructed at the instant now, after the session
\* before it has written its last: the name of its log file is made from
\* msg and the second of the clock, and its run starts with fp = None. The
\* file of that name, if there is one, is the file its run will open.
Session(msg, now) ==
    /\ Len(sessions) < MaxSessions
    /\ now >= sessions[Len(sessions)]
    /\ LET stem == LogName(msg, strftime(now))
       IN  /\ _msg' = msg
           /\ _log_filepath' = stem
           /\ plfExists' = (stem \in DOMAIN LogFiles)
           /\ plf' = IF stem \in DOMAIN LogFiles THEN LogFiles[stem] ELSE <<>>
           /\ shelf' = [n \in DOMAIN LogFiles \ {stem} |-> LogFiles[n]]
    /\ sessions' = Append(sessions, now)
    /\ wpc' = "recv"
    /\ fp' = "none"
    /\ received' = <<>>
    /\ UNCHANGED <<csvExists, csv, converted, decodes>>
    /\ UNCHANGED <<gatewayVars, registryVars, endpointVars, replayVars>>

SessionsNext ==
    \/ \E m \in Msgs, ioerr \in BOOLEAN : Receive(m, ioerr)
    \/ \E msg \in WriterTypes, now \in Instants : Session(msg, now)

\* The decoder takes any .plf file it finds in its folder: the files of up
\* to MaxFileLen bytes.
MaxFileLen == 6
Bytes == {0, 1, 2, 255}
ByteFiles == UNION {[1..k -> Bytes] : k \in 0..MaxFileLen}

\* A folder with one .plf file, left by an earlier session.
FolderInit ==
    /\ _msg \in WriterTypes
    /\ \E timestamp \in Timestamps : _log_filepath = LogName(_msg, timestamp)
    /\ sessions = <<>>
    /\ shelf = NoFiles
    /\ wpc = "dead"
    /\ fp = "none"
    /\ plfExists = TRUE
    /\ plf \in ByteFiles
    /\ received = <<>>

DecodeNext == TestDecoder

(***************************************************************************)
(* Endpoints: ProtoParser.get_socket, and the sockets of TestSubscriber    *)
(* and TestPublisher.                                                      *)
(*                                                                         *)
(* A topic is the sequence of its characters, and a subscription is a      *)
(* prefix of the topics it lets through. The PUB socket forwards a message *)
(* to a connected SUB socket when a subscription it has been told of       *)
(* matches; the SUB socket matches again, against its own subscriptions,   *)
(* when recv takes the message from its queue.                             *)
(***************************************************************************)
MaxSends == 3

\* The schema file the endpoints are opened against.
SchemaDoc ==
    <<[kind |-> "annotated", type |-> "Order", name |-> "Order update",
       port |-> "5556", nested |-> FALSE],
      [kind |-> "annotated", type |-> "Aggregate", name |-> "Order update",
       port |-> "5557", nested |-> FALSE],
      [kind |-> "unmarked", type |-> "Quote", name |-> "", port |-> "",
       nested |-> FALSE]>>

\* The msg of a TestSubscriber and the type in a TestPublisher's file name:
\* the types of SchemaDoc, and one that SchemaDoc does not declare.
MessageArgs == {"Order", "Aggregate", "Quote", "Trade"}

Topics == {<<"A">>, <<"A", "B">>, <<"B">>}
\* The channel of a TestSubscriber; <<>> is channel=''.
ChannelArgs == {<<>>, <<"A">>}


\* get_socket creates the socket for any message, registered or not.
get_socket_unchecked(dict, message, sub, bind) ==
    [kind |-> IF sub THEN "SUB" ELSE "PUB",
     mode |-> IF bind THEN "bind" ELSE "connect",
     host |-> "127.0.0.1",
     port |-> IF message \in DOMAIN dict THEN dict[message].Port ELSE "",
     subscribed |-> sub,
     log  |-> "debug"]

\* get_socket connects whatever bind says.
get_socket_connects(dict, message, sub, bind) ==
    IF message \in DOMAIN dict
    THEN [kind |-> IF sub THEN "SUB" ELSE "PUB",
          mode |-> "connect",
          host |-> "127.0.0.1",
          port |-> dict[message].Port,
          subscribed |-> sub,
          log  |-> "debug"]
    ELSE None @@ [log |-> "error"]

\* ProtoParser.get_socket(message, sub, bind) on a parser whose message_dict
\* is dict: the socket it returns, with the level of the line it logs.
\* subscribed: the socket was subscribed to ''.
get_socket(dict, message, sub, bind) ==
    IF message \in DOMAIN dict
    THEN [kind |-> IF sub THEN "SUB" ELSE "PUB",
          mode |-> IF bind THEN "bind" ELSE "connect",
          host |-> "127.0.0.1",
          port |-> dict[message].Port,
          subscribed |-> sub,
          log  |-> "debug"]
    ELSE None @@ [log |-> "error"]

\* Calls made on one built parser.
MaxLookups == 2

\* The mapping after a lookup that stores None for a key it does not find.
GetSetsDefault(dict, message) ==
    IF message \in DOMAIN dict THEN dict
    ELSE [k \in DOMAIN dict \cup {message} |->
            IF k = message THEN None ELSE dict[k]]
\* The mapping after self.message_dict.get(message, None): get reads the
\* mapping and stores nothing.
AfterGet(dict, message) == dict

\* lookup(message) on the built parser.
Lookup(message) ==
    /\ rpc = "built"
    /\ Len(calls) < MaxLookups
    /\ calls' = Append(calls,
            [op |-> "lookup", message |-> message,
             result |-> lookup(message_dict, message)])
    /\ message_dict' = AfterGet(message_dict, message)
    /\ UNCHANGED <<blocks, rpc, capture, gpc, data>>
    /\ UNCHANGED <<gatewayVars, frameLogVars, endpointVars, replayVars>>

\* get_socket(message, sub, bind) on the built parser: it looks the message
\* up and opens the socket from the entry's Port.
GetSocket(message, sub, bind) ==
    /\ rpc = "built"
    /\ Len(calls) < MaxLookups
    /\ calls' = Append(calls,
            [op |-> "get_socket", message |-> message,
             result |-> get_socket(message_dict, message, sub, bind)])
    /\ message_dict' = AfterGet(message_dict, message)
    /\ UNCHANGED <<blocks, rpc, capture, gpc, data>>
    /\ UNCHANGED <<gatewayVars, frameLogVars, endpointVars, replayVars>>

\* A parser is built and then asked for entries and sockets.
LookupNext ==
    \/ ProtoParser
    \/ \E message \in MessageArgs : Lookup(message)
    \/ \E message \in MessageArgs, sub \in BOOLEAN, bind \in BOOLEAN :
            GetSocket(message, sub, bind)

\* A subscription lets the topics through that start with it.
Matches(topic, prefix) ==
    /\ Len(prefix) <= Len(topic)
    /\ SubSeq(topic, 1, Len(prefix)) = prefix
MatchesSome(topic, prefixes) ==
    \E i \in 1..Len(prefixes) : Matches(topic, prefixes[i])

\* socket.unsubscribe(prefix) takes one subscription to the prefix away.
RECURSIVE Unsubscribed(_, _)
Unsubscribed(prefixes, prefix) ==
    IF prefixes = <<>> THEN <<>>
    ELSE IF Head(prefixes) = prefix THEN Tail(prefixes)
    ELSE <<Head(prefixes)>> \o Unsubscribed(Tail(prefixes), prefix)

\* The socket a caller holds, once it has called get_socket.
SocketOf(owner) ==
    LET i == CHOOSE i \in 1..Len(opens) : opens[i].owner = owner
    IN  opens[i].sock

\* The message the owner's get_socket call was made for.
SocketArg(owner) ==
    LET i == CHOOSE i \in 1..Len(opens) : opens[i].owner = owner
    IN  opens[i].message

EndpointInit ==
    /\ opens = <<>>
    /\ spc = "new"
    /\ sarg = [msg |-> "Order", channel |-> <<>>]
    /\ ssubs = <<>>
    /\ pubView = <<>>
    /\ squeue = <<>>
    /\ delivered = <<>>
    /\ ppc = "new"

\* TestSubscriber.__init__, lines 71-72: a parser is built, get_socket
\* connects a SUB socket subscribed to '', and get_proto_obj makes the
\* message object.
SubscriberGetSocket(msg, channel) ==
    /\ spc = "new"
    /\ LET parser == _parse_proto(Text(blocks))
           sock   == get_socket(parser.dict, msg, TRUE, FALSE)
       IN  /\ ~parser.raised
           /\ opens' = Append(opens,
                  [owner |-> "TestSubscriber", message |-> msg, sock |-> sock])
           /\ spc' = IF GetProtoObjRaises(blocks, msg) THEN "failed"
                     ELSE "socket"
           /\ ssubs' = IF sock.kind = "SUB" /\ sock.subscribed
                       THEN <<<<>>>> ELSE <<>>
    /\ sarg' = [msg |-> msg, channel |-> channel]
    /\ UNCHANGED <<pubView, squeue, delivered, ppc>>
    /\ UNCHANGED <<gatewayVars, registryVars, frameLogVars, replayVars>>

\* The channel's subscription is added beside the one to ''.
SubscriberKeepsAll ==
    /\ spc = "socket"
    /\ sarg.channel # <<>>
    /\ ssubs' = Append(ssubs, sarg.channel)
    /\ spc' = "ready"
    /\ UNCHANGED <<opens, sarg, pubView, squeue, delivered, ppc>>
    /\ UNCHANGED <<gatewayVars, registryVars, frameLogVars, replayVars>>

\* TestSubscriber.__init__, lines 73-74: with a channel, the subscription
\* to '' is taken away.
SubscriberUnsubscribe ==
    /\ spc = "socket"
    /\ sarg.channel # <<>>
    /\ IF SocketOf("TestSubscriber").kind = "None"
       THEN \* None has no unsubscribe: AttributeError ends __init__
            /\ spc' = "AttributeError"
            /\ ssubs' = ssubs
       ELSE /\ ssubs' = Unsubscribed(ssubs, <<>>)
            /\ spc' = "unsub"
    /\ UNCHANGED <<opens, sarg, pubView, squeue, delivered, ppc>>
    /\ UNCHANGED <<gatewayVars, registryVars, frameLogVars, replayVars>>

\* TestSubscriber.__init__, line 75: the channel is subscribed to.
SubscriberSubscribe ==
    /\ spc = "unsub"
    /\ ssubs' = Append(ssubs, sarg.channel)
    /\ spc' = "ready"
    /\ UNCHANGED <<opens, sarg, pubView, squeue, delivered, ppc>>
    /\ UNCHANGED <<gatewayVars, registryVars, frameLogVars, replayVars>>

\* The thread is started, by __init__ (autostart) or by the caller, once
\* __init__ is through its subscriptions.
SubscriberStart ==
    /\ \/ spc = "ready"
       \/ spc = "socket" /\ sarg.channel = <<>>
    /\ spc' = "running"
    /\ UNCHANGED <<opens, sarg, ssubs, pubView, squeue, delivered, ppc>>
    /\ UNCHANGED <<gatewayVars, registryVars, frameLogVars, replayVars>>

\* TestPublisher.__init__, line 140: a parser is built and get_socket
\* binds a PUB socket for the type in the file's name.
PublisherGetSocket(type) ==
    /\ ppc = "new"
    /\ LET parser == _parse_proto(Text(blocks))
           sock   == get_socket(parser.dict, type, FALSE, TRUE)
       IN  /\ ~parser.raised
           /\ opens' = Append(opens,
                  [owner |-> "TestPublisher", message |-> type, sock |-> sock])
           /\ ppc' = IF sock.kind = "None" THEN "nosocket" ELSE "bound"
    /\ UNCHANGED <<spc, sarg, ssubs, pubView, squeue, delivered>>
    /\ UNCHANGED <<gatewayVars, registryVars, frameLogVars, replayVars>>

\* The two sockets are at the same address.
Connected ==
    /\ ppc = "bound"
    /\ spc \in {"socket", "unsub", "ready", "running"}
    /\ SocketOf("TestSubscriber").kind = "SUB"
    /\ SocketOf("TestPublisher").port = SocketOf("TestSubscriber").port

\* The SUB socket's subscriptions reach the PUB socket some time after
\* they were made.
SubscriptionsReachPublisher ==
    /\ Connected
    /\ pubView # ssubs
    /\ pubView' = ssubs
    /\ UNCHANGED <<opens, spc, sarg, ssubs, squeue, delivered, ppc>>
    /\ UNCHANGED <<gatewayVars, registryVars, frameLogVars, replayVars>>

\* send_multipart([topic, payload]) on the PUB socket: the message goes to
\* the SUB socket when a subscription the PUB socket knows of matches.
Send(topic) ==
    /\ Connected
    /\ Len(squeue) + Len(delivered) < MaxSends
    /\ squeue' = IF MatchesSome(topic, pubView)
                 THEN Append(squeue, topic) ELSE squeue
    /\ UNCHANGED <<opens, spc, sarg, ssubs, pubView, delivered, ppc>>
    /\ UNCHANGED <<gatewayVars, registryVars, frameLogVars, replayVars>>

\* recv_multipart in TestSubscriber.run, line 98: the socket takes the next
\* message from its queue and returns it when a subscription matches, and
\* otherwise drops it and goes on waiting.
RecvMultipart ==
    /\ spc = "running"
    /\ squeue # <<>>
    /\ squeue' = Tail(squeue)
    /\ delivered' = IF MatchesSome(Head(squeue), ssubs)
                    THEN Append(delivered, Head(squeue)) ELSE delivered
    /\ UNCHANGED <<opens, spc, sarg, ssubs, pubView, ppc>>
    /\ UNCHANGED <<gatewayVars, registryVars, frameLogVars, replayVars>>

\* TestSubscriber.run with no socket: None has no recv_multipart, the
\* except clause calls fp.flush() with fp still None, and the AttributeError
\* of that ends the thread.
SubscriberRunWithoutSocket ==
    /\ spc = "running"
    /\ SocketOf("TestSubscriber").kind = "None"
    /\ spc' = "AttributeError"
    /\ UNCHANGED <<opens, sarg, ssubs, pubView, squeue, delivered, ppc>>
    /\ UNCHANGED <<gatewayVars, registryVars, frameLogVars, replayVars>>

\* TestPublisher.run with no socket: get_proto_obj raises for a type the
\* schema does not declare; for a declared type the first frame is read
\* and None has no send_multipart, which ends the thread.
PublisherRunWithoutSocket ==
    /\ ppc = "nosocket"
    /\ ppc' = IF GetProtoObjRaises(blocks, SocketArg("TestPublisher"))
              THEN "failed" ELSE "AttributeError"
    /\ UNCHANGED <<opens, spc, sarg, ssubs, pubView, squeue, delivered>>
    /\ UNCHANGED <<gatewayVars, registryVars, frameLogVars, replayVars>>

EndpointNext ==
    \/ \E msg \in MessageArgs, channel \in ChannelArgs :
            SubscriberGetSocket(msg, channel)
    \/ SubscriberUnsubscribe
    \/ SubscriberSubscribe
    \/ SubscriberStart
    \/ \E type \in MessageArgs : PublisherGetSocket(type)
    \/ SubscriptionsReachPublisher
    \/ \E topic \in Topics : Send(topic)
    \/ RecvMultipart
    \/ SubscriberRunWithoutSocket
    \/ PublisherRunWithoutSocket

(***************************************************************************)
(* Replay: TestPublisher.run reads the frames of a .plf file and sends     *)
(* each on its socket.                                                     *)
(***************************************************************************)
\* fp.read(n): the next n bytes, or what is left of the file.
Read(bytes, n) == SubSeq(bytes, 1, Min(n, Len(bytes)))
AfterRead(bytes, n) == SubSeq(bytes, Min(n, Len(bytes)) + 1, Len(bytes))

\* proto_obj.SerializeToString(): the bytes the object was parsed from.
SerializeToString(obj) == obj.data

\* The topic is the symbol of no message.
TopicBlank(obj) == 0
\* topic = proto_obj.sym
TopicOf(obj) == obj.sym

\* The rate of a TestPublisher (1 by default).
Rates == {1, 2}

\* The log files replayed besides the files of ByteFiles: up to MaxFrames
\* frames as TestSubscriber.run writes them, of envelopes with the header
\* times 0 s, 1 s, 2 s and 5 s.
MaxFrames == 3
TimedPayloads == {<<0>>, <<1>>, <<2>>, <<5>>}
RECURSIVE LogOf(_)
LogOf(payloads) ==
    IF payloads = <<>> THEN <<>>
    ELSE ToBytes(Len(Head(payloads))) \o Head(payloads) \o LogOf(Tail(payloads))
FrameLogs ==
    {LogOf(ps) : ps \in UNION {[1..k -> TimedPayloads] : k \in 0..MaxFrames}}

Max(a, b) == IF a > b THEN a ELSE b

\* sleep_time = max(0.1, t_current - t_prev) / 1000, in seconds; here in
\* units of 0.1 ms, the times being in ms.
SleepTime(t_prev, t_current) == Max(1, 10 * (t_current - t_prev))

\* The guard taken of the pause scaled by the rate.
SleepIfScaledExceeds(sleep_time, rate) ==
    IF sleep_time \div rate > 2 * 10000 THEN sleep_time \div rate ELSE 0
\* `if sleep_time > 2`, with the sleep not scaled by the rate.
SleepUnscaled(sleep_time, rate) ==
    IF sleep_time > 2 * 10000 THEN sleep_time ELSE 0
\* `if sleep_time > 2: time.sleep(sleep_time / self._rate)`: the time slept,
\* in units of 0.1 ms.
Sleep(sleep_time, rate) ==
    IF sleep_time > 2 * 10000 THEN sleep_time \div rate ELSE 0

\* datetime.fromtimestamp(t_current / 100): the time that many seconds
\* after the epoch (datetime: the value is a datetime; _msgTime starts as
\* the integer 0).
FromTimestamp(t_current) ==
    [datetime |-> TRUE, epoch_s |-> t_current \div 100]

\* The with statement leaves the file open.
WithExitLeaks(h) == h
\* Leaving `with open(...) as fp`, normally or by an exception, closes fp.
WithExit(h) == "closed"

ReplayStart(rate) ==
    /\ tpc = "idle"
    /\ rest = <<>>
    /\ proto_obj = ParseFromString(<<>>)
    /\ published = <<>>
    /\ pauses = <<>>
    /\ _count = 0
    /\ _msgTime = [datetime |-> FALSE, epoch_s |-> 0]
    /\ _rate = rate
    /\ rfp = "none"
    /\ tmp = 0
    /\ qpc = "idle"
    /\ count = 0
    /\ returned = <<>>

ReplayInit == ReplayStart(1)

\* run, up to its loop: the file is opened and its first frame is read and
\* parsed, whatever the length read.
ReplayOpen ==
    /\ tpc = "idle"
    /\ plfExists
    /\ LET msg_size == FromBytes(Read(plf, LenBytes))
           body     == Read(AfterRead(plf, LenBytes), msg_size)
       IN  /\ rest' = AfterRead(AfterRead(plf, LenBytes), msg_size)
           /\ IF ParseFails(body)
              THEN /\ tpc' = "crashed"
                   /\ rfp' = WithExit("open")
                   /\ UNCHANGED proto_obj
              ELSE /\ tpc' = "loop"
                   /\ rfp' = "open"
                   /\ proto_obj' = ParseFromString(body)
    /\ UNCHANGED <<published, pauses, _count, _msgTime, _rate, tmp>>
    /\ UNCHANGED <<qpc, count, returned>>
    /\ UNCHANGED <<gatewayVars, registryVars, frameLogVars, endpointVars>>

\* One iteration of run's loop, up to its sleep: the message object is sent
\* on its topic, the next length is read and ends the loop when it is zero;
\* otherwise the next frame is read and parsed, and the thread sleeps when
\* the header times are more than 2 s apart.
ReplayStep ==
    /\ tpc = "loop"
    /\ published' = Append(published,
            [topic |-> TopicOf(proto_obj),
             payload |-> SerializeToString(proto_obj)])
    /\ LET t_prev   == proto_obj.utc_time
           msg_size == FromBytes(Read(rest, LenBytes))
           body     == Read(AfterRead(rest, LenBytes), msg_size)
       IN  IF msg_size = 0
           THEN /\ tpc' = "done"
                /\ rfp' = WithExit(rfp)
                /\ rest' = AfterRead(rest, LenBytes)
                /\ UNCHANGED <<proto_obj, pauses>>
           ELSE /\ rest' = AfterRead(AfterRead(rest, LenBytes), msg_size)
                /\ IF ParseFails(body)
                   THEN /\ tpc' = "crashed"
                        /\ rfp' = WithExit(rfp)
                        /\ UNCHANGED <<proto_obj, pauses>>
                   ELSE /\ tpc' = "count"
                        /\ rfp' = rfp
                        /\ proto_obj' = ParseFromString(body)
                        /\ pauses' = Append(pauses,
                              Sleep(SleepTime(t_prev,
                                        ParseFromString(body).utc_time), _rate))
    /\ UNCHANGED <<_count, _msgTime, _rate, tmp, qpc, count, returned>>
    /\ UNCHANGED <<gatewayVars, registryVars, frameLogVars, endpointVars>>

\* `self._count += 1`, first half: the attribute is loaded.
ReplayCountLoad ==
    /\ tpc = "count"
    /\ tmp' = _count
    /\ tpc' = "store"
    /\ UNCHANGED <<rest, proto_obj, published, pauses, _count, _msgTime, _rate,
                   rfp, qpc, count, returned>>
    /\ UNCHANGED <<gatewayVars, registryVars, frameLogVars, endpointVars>>

\* `self._count += 1`, second half: the sum is stored; then
\* `self._msgTime = ts_current`, and the loop goes round.
ReplayCountStore ==
    /\ tpc = "store"
    /\ _count' = tmp + 1
    /\ _msgTime' = FromTimestamp(proto_obj.utc_time)
    /\ tpc' = "loop"
    /\ UNCHANGED <<rest, proto_obj, published, pauses, _rate, rfp, tmp, qpc,
                   count, returned>>
    /\ UNCHANGED <<gatewayVars, registryVars, frameLogVars, endpointVars>>

\* Queries a caller makes of one TestPublisher.
MaxQueries == 2

\* getMessageCount, first statement: count = self._count.
GetMessageCountRead ==
    /\ qpc = "idle"
    /\ Len(returned) < MaxQueries
    /\ count' = _count
    /\ qpc' = "zero"
    /\ UNCHANGED <<tpc, rest, proto_obj, published, pauses, _count, _msgTime,
                   _rate, rfp, tmp, returned>>
    /\ UNCHANGED <<gatewayVars, registryVars, frameLogVars, endpointVars>>

\* getMessageCount, the rest: self._count = 0; return count.
GetMessageCountZero ==
    /\ qpc = "zero"
    /\ _count' = 0
    /\ returned' = Append(returned, count)
    /\ qpc' = "idle"
    /\ UNCHANGED <<tpc, rest, proto_obj, published, pauses, _msgTime, _rate,
                   rfp, tmp, count>>
    /\ UNCHANGED <<gatewayVars, registryVars, frameLogVars, endpointVars>>

ReplayNext ==
    \/ ReplayOpen
    \/ ReplayStep
    \/ ReplayCountLoad
    \/ ReplayCountStore

QueryNext ==
    \/ ReplayNext
    \/ GetMessageCountRead
    \/ GetMessageCountZero

(***************************************************************************)
(* Specifications.                                                         *)
(***************************************************************************)
\* Each specification starts its own part and holds the others at rest.
FrameLogInit == WriterInit /\ DecoderInit

\* The endpoints are opened against the schema file SchemaDoc.
SchemaInit ==
    /\ blocks = SchemaDoc
    /\ rpc = "edit"
    /\ message_dict = NoDict
    /\ ParameterStart(<<>>)
    /\ calls = <<>>

InitGateway  == GatewayInit /\ RegistryInit /\ FrameLogInit /\ EndpointInit /\ ReplayInit
InitDispatch ==
    GatewayStart("ctor") /\ RegistryInit /\ FrameLogInit /\ EndpointInit /\ ReplayInit
\* _get_parameter is given the text of a parameter.
InitParameter ==
    /\ GatewayStart("ctor") /\ FrameLogInit /\ EndpointInit /\ ReplayInit
    /\ blocks = <<>> /\ rpc = "edit" /\ message_dict = NoDict
    /\ \E captured \in Captures : ParameterStart(captured)
    /\ calls = <<>>
InitRegistry ==
    GatewayStart("ctor") /\ RegistryInit /\ FrameLogInit /\ EndpointInit /\ ReplayInit
\* The log sessions and the decoder run against the schema file LogSchema.
LogSchemaInit ==
    /\ blocks = LogSchema
    /\ rpc = "edit"
    /\ message_dict = NoDict
    /\ ParameterStart(<<>>)
    /\ calls = <<>>
\* A parser for one of the schema files.
InitLookup ==
    /\ GatewayStart("ctor") /\ FrameLogInit /\ EndpointInit /\ ReplayInit
    /\ (SchemaInit \/ LogSchemaInit)
InitFrameLog ==
    /\ GatewayStart("ctor") /\ LogSchemaInit /\ EndpointInit /\ ReplayInit
    /\ \E msg \in WriterTypes : WriterStart(msg)
    /\ DecoderInit
\* A log directory, empty when its first writer session, of Order messages,
\* is constructed.
InitSessions ==
    GatewayStart("ctor") /\ LogSchemaInit /\ FrameLogInit /\ EndpointInit /\ ReplayInit

InitDecode ==
    /\ GatewayStart("ctor") /\ LogSchemaInit /\ EndpointInit /\ ReplayInit
    /\ FolderInit /\ DecoderInit
\* The file a TestPublisher is given is one of files.
ReplayFile(files) ==
    /\ _msg = "Order"
    /\ _log_filepath = LogName("Order", "20240102T030405")
    /\ sessions = <<>>
    /\ shelf = NoFiles
    /\ wpc = "dead"
    /\ fp = "none"
    /\ plfExists = TRUE
    /\ plf \in files
    /\ received = <<>>
\* A replay of a file, at one of the rates.
InitReplay ==
    /\ GatewayStart("ctor") /\ RegistryInit /\ EndpointInit
    /\ ReplayFile(ByteFiles \cup FrameLogs) /\ DecoderInit
    /\ \E rate \in Rates : ReplayStart(rate)
\* A replay of a log file while its counter is queried.
InitQuery ==
    /\ GatewayStart("ctor") /\ RegistryInit /\ EndpointInit
    /\ ReplayFile(FrameLogs) /\ DecoderInit
    /\ ReplayStart(1)
InitEndpoints ==
    GatewayStart("ctor") /\ SchemaInit /\ FrameLogInit /\ EndpointInit /\ ReplayInit

SpecGateway  == InitGateway /\ [][GatewayNext]_vars
SpecDispatch == InitDispatch /\ [][DispatchNext]_vars
SpecParameter == InitParameter /\ [][ParameterNext]_vars
SpecLookup == InitLookup /\ [][LookupNext]_vars
SpecRegistry == InitRegistry /\ [][RegistryNext]_vars
SpecFrameLog == InitFrameLog /\ [][FrameLogNext]_vars
SpecEndpoints == InitEndpoints /\ [][EndpointNext]_vars
SpecSessions == InitSessions /\ [][SessionsNext]_vars
SpecDecode == InitDecode /\ [][DecodeNext]_vars
SpecReplay == InitReplay /\ [][ReplayNext]_vars
\* The replay thread is scheduled as long as it can take a step.
SpecReplayFair == SpecReplay /\ WF_vars(ReplayNext)
SpecQuery == InitQuery /\ [][QueryNext]_vars

(***************************************************************************)
(* Properties.                                                             *)
(***************************************************************************)
\* The envelopes among the messages a session received.
IsEnvelope(m) == ~ParseFails(m.b)
Envelopes(ms) == SelectSeq(ms, IsEnvelope)

\* The record of an envelope: its header time hoisted, its other fields.
RecordOfEnvelope(m) ==
    [hdrTime |-> ParseFromString(m.b).utc_time, data |-> m.b]

\* C1: round trip. Decoding the log file of a session yields one record per
\* envelope the session received, with the envelope's field values, in the
\* order received.
C1_RoundTrip ==
    _decode_plf(plf) =
        [i \in 1..Len(Envelopes(received)) |->
            RecordOfEnvelope(Envelopes(received)[i])]

\* C2: reconnection is indefinite. After k consecutive failures, for every
\* k, the reconnect loop's thread is alive: a thread all of whose runs
\* raised has not died.
C2_ReconnectsIndefinitely ==
    \A t \in Threads : failed[t] = runs[t] => pc[t] # "crashed"

\* C3: an explicit stop is terminal. Once a stop was requested of a gateway
\* whose loops have all made their first connection, no further invocation
\* of run is started.
C3_StopIsTerminal ==
    [][(stopRequested /\ \A t \in Threads : pc[t] \notin {"init", "start"})
       => runs' = runs]_vars

\* C4: an exception out of run is followed by exactly one reconnect attempt,
\* no sooner than 3 s later. The finally clause entered on an exception is
\* left (other than by a user interrupt) only by one new invocation of run,
\* after the full delay.
C4_OneReconnectAfterDelay ==
    [][\A t \in Threads :
         (/\ pc[t] = "finally"
          /\ cause[t] = "exception"
          /\ pc'[t] \notin {"finally", "exited"})
         => (/\ pc'[t] = "running"
             /\ runs'[t] = runs[t] + 1
             /\ slept[t] >= ReconnectDelay)]_vars

\* C5: subscriptions survive reconnects unchanged. No step of a
\* disconnect/reconnect cycle, and no step at all once a handler is
\* registered, adds, drops or duplicates a registration.
C5_SubscriptionsSurviveReconnect ==
    [][(\/ \E t \in Threads : pc[t] \in {"running", "finally"} /\ pc'[t] # pc[t]
        \/ subs # <<>>)
       => subs' = subs]_vars

\* A thread streams again after a failed run and its reconnect, with the
\* handler registered.
C5_Witness ==
    \E t \in Threads :
        /\ pc[t] = "running"
        /\ depth[t] >= 2
        /\ cause[t] = "exception"
        /\ Len(subs) = 1

\* The channels to be subscribed while streaming: order updates, bars of
\* each symbol of the universe, every crypto bar.
RequiredChannels ==
    {<<"trade_updates", "*">>, <<"crypto_bars", "*">>}
        \cup {<<"bars", sym>> : sym \in Universe}

\* C6: while a thread is streaming, the order-update channel, one bar
\* subscription per symbol of the universe and the wildcard crypto-bar
\* subscription are all registered, each once.
C6_StreamingHasAllSubscriptions ==
    (\E t \in Threads : pc[t] = "running")
        => /\ RequiredChannels \subseteq Channels(subs)
           /\ \A c \in RequiredChannels :
                Cardinality({i \in 1..Len(subs) : subs[i].channel = c}) = 1

\* C7: at most one thread executes the stream's run loop at any time.
C7_SingleDispatchLoop ==
    Cardinality({t \in Threads : pc[t] = "running"}) <= 1

\* The declared type names of the document's blocks that carry the marker,
\* and of its message blocks that do not.
MarkedIdx == {i \in 1..Len(blocks) : blocks[i].kind \in {"annotated", "noport"}}
MarkedTypes == {blocks[i].type : i \in MarkedIdx}
UnmarkedTypes ==
    {blocks[i].type : i \in {j \in 1..Len(blocks) : blocks[j].kind = "unmarked"}}

\* C8: schema extraction. A registry built from a document with K blocks
\* that carry the marker and M message blocks that do not has exactly K
\* entries, keyed by the declared type names of the K blocks, and no entry
\* for any of the M.
C8_SchemaExtraction ==
    rpc = "built"
        => /\ Cardinality(DOMAIN message_dict) = Cardinality(MarkedIdx)
           /\ DOMAIN message_dict = MarkedTypes
           /\ DOMAIN message_dict \cap UnmarkedTypes = {}

\* A registry built from two annotated blocks, one of them with nested
\* braces, and an unmarked message block.
C8_Witness ==
    /\ rpc = "built"
    /\ Cardinality(MarkedIdx) = 2
    /\ UnmarkedTypes # {}
    /\ \E i \in MarkedIdx : blocks[i].nested

\* C11: a block that carries the marker but has no extractable type name,
\* or lacks a required parameter, makes the construction fail: no registry
\* is built from a document with such a block.
C11_MalformedBlockFailsConstruction ==
    (\E i \in 1..Len(blocks) : blocks[i].kind \in {"noport", "markeronly"})
        => rpc # "built"

\* C9: in every registry built, no two entries carry the same port.
C9_PortsUnique ==
    rpc = "built"
        => \A a, b \in DOMAIN message_dict :
                a # b => message_dict[a].Port # message_dict[b].Port

\* int(text), for the port texts that are integers.
IsIntegerText(txt) == txt \in {"5556", "5557", "70000"}
IntOf(txt) ==
    CASE txt = "5556" -> 5556 [] txt = "5557" -> 5557 [] txt = "70000" -> 70000

\* C10: in every registry built, each entry's Port parses as an integer in
\* 1..65535.
C10_PortsAreValid ==
    rpc = "built"
        => \A k \in DOMAIN message_dict :
                /\ IsIntegerText(message_dict[k].Port)
                /\ IntOf(message_dict[k].Port) \in 1..65535

\* The message type has an entry in the registry of the schema file.
Registered(message) ==
    \E j \in 1..Len(blocks) :
        blocks[j].kind = "annotated" /\ blocks[j].type = message

\* C12: a get_socket call for a type absent from the registry returns no
\* socket and logs an error, and every call for a registered type returns
\* a socket, those made after such a failure included.
C12_UnknownTypeOpensNoSocket ==
    \A i \in 1..Len(opens) :
        IF Registered(opens[i].message)
        THEN opens[i].sock.kind \in {"PUB", "SUB"}
        ELSE opens[i].sock.kind = "None" /\ opens[i].sock.log = "error"

\* A call for an absent type was followed by a call that opened a socket.
C12_Witness ==
    /\ Len(opens) = 2
    /\ opens[1].sock.kind = "None"
    /\ opens[2].sock.kind # "None"

C14_TopicFilter ==
    /\ sarg.channel # <<>> =>
            \A i \in 1..Len(delivered) : Matches(delivered[i], sarg.channel)
    /\ (/\ sarg.channel = <<>>
        /\ spc = "running"
        /\ SocketOf("TestSubscriber").kind = "SUB") =>
            \A topic \in Topics : MatchesSome(topic, ssubs)

\* Two messages were queued while the socket was still subscribed to '';
\* the one the channel matches was returned, the other is still queued.
C14_Witness ==
    /\ spc = "running"
    /\ sarg.channel = <<"A">>
    /\ delivered = <<<<"A">>>>
    /\ squeue = <<<<"B">>>>

\* The frame of a message: its length in two bytes, high byte first, and
\* its bytes.
FrameOf(m) == <<m.n \div 256, m.n % 256>> \o m.b

\* C15: when the writer takes a message, the file keeps the bytes it had
\* and gains, for a payload the writer appends, exactly the payload's
\* frame; bytes gained in any other case start with the true length high
\* byte first, and a payload longer than 65535 bytes adds none.
C15_FrameFormat ==
    [][received' # received =>
        LET m     == received'[Len(received')]
            base  == IF fp = "none" THEN <<>> ELSE plf
            added == SubSeq(plf', Len(base) + 1, Len(plf'))
        IN  /\ SubSeq(plf', 1, Len(base)) = base
            /\ fp' = "open" => added = FrameOf(m)
            /\ added # <<>> =>
                    /\ Len(added) >= 2
                    /\ added[1] * 256 + added[2] = m.n
            /\ m.n > 65535 => added = <<>>]_vars

\* A frame was appended after another one, and a message too long for a
\* frame came after them.
C15_Witness ==
    /\ Len(received) = 3
    /\ received[3].n > 65535
    /\ plf = <<0, 1, 1, 0, 2, 1, 2>>

\* C16: a step of the writer that fails on an open file leaves the handle
\* closed, and once the handle is closed the file's bytes never change.
C16_NoAppendAfterError ==
    [][/\ fp = "closed" => (plf' = plf /\ fp' = "closed")
       /\ received' # received =>
            LET m    == received'[Len(received')]
                base == IF fp = "none" THEN <<>> ELSE plf
            IN  (plf' # base \o FrameOf(m) /\ fp' # "none")
                    => fp' = "closed"]_vars

\* The second message failed and closed the handle; the third, a payload
\* the writer would have appended, left the file as it was.
C16_Witness ==
    /\ Len(received) = 3
    /\ ParseFails(received[2].b)
    /\ received[3].b = <<1, 2>>
    /\ plf = <<0, 1, 1>>
    /\ fp = "closed"

\* The complete frames at the start of a file: the scan ends at a length
\* prefix of fewer than two bytes, at a length of zero, and at a payload
\* that the file does not hold in full.
RECURSIVE CompleteFrames(_)
CompleteFrames(bytes) ==
    IF Len(bytes) < 2 THEN <<>>
    ELSE LET L == bytes[1] * 256 + bytes[2]
         IN  IF L = 0 \/ Len(bytes) < 2 + L THEN <<>>
             ELSE <<SubSeq(bytes, 3, 2 + L)>>
                    \o CompleteFrames(SubSeq(bytes, 3 + L, Len(bytes)))

RECURSIVE Concat(_)
Concat(fs) ==
    IF fs = <<>> THEN <<>>
    ELSE <<Len(Head(fs)) \div 256, Len(Head(fs)) % 256>> \o Head(fs)
            \o Concat(Tail(fs))
IsWholeLog(bytes) == Concat(CompleteFrames(bytes)) = bytes

\* The records of the frames that deserialize, in file order.
RECURSIVE ExpectedRecords(_)
ExpectedRecords(fs) ==
    IF fs = <<>> THEN <<>>
    ELSE (IF ParseFails(Head(fs)) THEN <<>>
          ELSE <<RecordOfEnvelope([n |-> Len(Head(fs)), b |-> Head(fs)])>>)
            \o ExpectedRecords(Tail(fs))

\* C18: for a file of N complete frames, the decoder reads exactly those
\* frames, a frame after a failed one included, and emits the records of
\* the frames that deserialize, in file order.
C18_PartialFailureTolerant ==
    (csvExists /\ IsWholeLog(plf)) =>
        /\ Frames(plf) = CompleteFrames(plf)
        /\ csv = ExpectedRecords(CompleteFrames(plf))

\* C19: the messages a replay has published are the first complete frames
\* of its file, in file order, each once; when the replay is through, they
\* are all of them.
C19_ReplayInFileOrder ==
    LET fs == CompleteFrames(plf)
    IN  /\ Len(published) <= Len(fs)
        /\ \A i \in 1..Len(published) : published[i].payload = fs[i]
        /\ tpc = "done" => Len(published) = Len(fs)

\* C20: every message of a replay was sent on the topic that is the symbol
\* of the message itself.
C20_TopicIsOwnSymbol ==
    \A i \in 1..Len(published) :
        published[i].topic = ParseFromString(published[i].payload).sym

\* A replay that sent two frames with different symbols.
C20_Witness ==
    /\ tpc = "done"
    /\ plf = <<0, 1, 1, 0, 1, 2>>
    /\ Len(published) = 2
    /\ published[1].topic = 1
    /\ published[2].topic = 2

\* The header time of a published message, in ms.
TimeOf(msg) == ParseFromString(msg.payload).utc_time

\* C21: the i-th pause is taken after frame i is published and before
\* frame i+1 is, and for header times d ms apart it is d/1000/rate seconds
\* when d exceeds 2000 and no pause otherwise (pauses are in 0.1 ms).
C21_ReplayTiming ==
    /\ Len(pauses) <= Len(published)
    /\ Len(published) <= Len(pauses) + 1
    /\ \A i \in 1..Len(pauses) :
        LET next == IF i < Len(published) THEN TimeOf(published[i + 1])
                    ELSE proto_obj.utc_time
            d    == next - TimeOf(published[i])
        IN  pauses[i] = IF d > 2000 THEN (10 * d) \div _rate ELSE 0

\* The frames with header times 0, 1000 and 5000 ms, replayed at rate 2:
\* no pause before the second and a pause of 2 s before the third.
C21_Witness ==
    /\ plf = <<0, 1, 0, 0, 1, 1, 0, 1, 5>>
    /\ _rate = 2
    /\ Len(published) = 3
    /\ pauses = <<0, 20000>>

\* The sum of the values of a sequence.
RECURSIVE Sum(_)
Sum(seq) == IF seq = <<>> THEN 0 ELSE Head(seq) + Sum(Tail(seq))

\* The increments `self._count += 1` has completed.
Increments ==
    Len(pauses) - (IF tpc \in {"count", "store"} THEN 1 ELSE 0)

\* C22: whenever neither a query nor an increment is under way, the values
\* the queries returned and the counter add up to the increments made; and
\* a query that follows another with no increment between returns 0.
C22_NoIncrementLost ==
    (qpc = "idle" /\ tpc # "store") =>
        Sum(returned) + _count = Increments

\* C28: every replay comes to an end, by a missing or zero-length next
\* frame or by an exception, and from then on its file handle is closed.
C28_ReplayTerminatesAndCloses ==
    <>[](tpc \in {"done", "crashed"} /\ rfp = "closed")

\* A replay that an exception ended in the middle of its file, after one
\* message.
C28_Witness ==
    /\ tpc = "crashed"
    /\ Len(published) = 1
    /\ rfp = "closed"

(***************************************************************************)
(* Order events.                                                           *)
(***************************************************************************)
\* The status the alias table gives an event name.
Translated(s) ==
    IF s \in DOMAIN ORDER_STATUS_TRANSFORM THEN ORDER_STATUS_TRANSFORM[s]
    ELSE s

\* C24: the status of every order the gateway produces is the alias
\* table's value for the incoming event name when the name is a key of the
\* table, and the name unchanged otherwise.
C24_StatusTranslated ==
    \A i \in 1..Len(dispatched) :
        ~dispatched[i].raised =>
            dispatched[i].status = Translated(dispatched[i].event.event)

\* C25: a malformed order event is dropped: no error escapes the handler,
\* the connection loop stays in run() with no reconnect counted for it, and
\* the handler goes on to process the events that follow.
C25_MalformedEventDropped ==
    [][\A t \in Threads, order_data \in OrderEvents, swallowed \in BOOLEAN :
            Dispatch(t, order_data, swallowed) =>
                /\ ~dispatched'[Len(dispatched')].raised
                /\ pc'[t] = "running"
                /\ failed' = failed]_vars

(***************************************************************************)
(* The writer's file.                                                      *)
(***************************************************************************)
IsPrefix(a, b) == Len(a) <= Len(b) /\ SubSeq(b, 1, Len(a)) = a

\* C29: the writer opens its file lazily and at most once in a session: a
\* session that has received no message has no file, the file is created
\* only by a step that receives a message with the handle still None, and
\* from the first open on the handle is never None again and the file is
\* never created or truncated again (after an error closed the handle, no
\* step reopens it).
C29_LazyOpenAtMostOnce ==
    /\ (received = <<>> => ~plfExists)
    /\ [][/\ (~plfExists /\ plfExists') => (received' # received /\ fp = "none")
          /\ fp = "none" => (~plfExists /\ plf = <<>>)
          /\ fp # "none" =>
                /\ fp' # "none"
                /\ plfExists /\ plfExists'
                /\ IsPrefix(plf, plf')
          /\ fp = "closed" => fp' = "closed"]_vars

\* A session whose second message, too long for a frame, closed the handle
\* after the first was written, and which then received a third.
C29_Witness ==
    /\ Len(received) = 3
    /\ received[1].b = <<1>>
    /\ received[2].n > MaxFrameLen
    /\ received[3].b = <<2>>
    /\ plf = <<0, 1, 1>>
    /\ plfExists
    /\ fp = "closed"

(***************************************************************************)
(* Log files and their decoding.                                           *)
(***************************************************************************)
\* C26: a decoder pass decodes the log file exactly when its CSV sibling
\* does not exist at the scan: with the sibling there the pass leaves it
\* and its records as they are, and a pass that finds none decodes the file
\* and leaves a sibling (so that the next pass decodes nothing).
C26_DecodedIffNoCsvSibling ==
    [][decodes' # decodes =>
        LET outcome == decodes'[Len(decodes')]
        IN  /\ (outcome = "decoded") <=> ~csvExists
            /\ csvExists => (csvExists' /\ csv' = csv)
            /\ outcome = "decoded" => csvExists']_vars

\* C27: a log file holds frames of one message type, the type in its name:
\* each frame of the file is a message its session, which is of one type,
\* received, and parse_plf_filestring recovers that type from the name.
C27_OneTypePerFile ==
    plfExists =>
        /\ \A i \in 1..Len(CompleteFrames(plf)) :
                \E j \in 1..Len(received) :
                    received[j].b = CompleteFrames(plf)[i]
        /\ LET plf_info == parse_plf_filestring(_log_filepath)
           IN  ~plf_info.raised /\ plf_info.type = _msg

\* The fields of a registry entry that its field descriptors mark as
\* millisecond POSIX timestamps.
PosixFields(dtype_info) ==
    IF "Fields" \in DOMAIN dtype_info
    THEN {k \in DOMAIN dtype_info.Fields : dtype_info.Fields[k].posix_ms}
    ELSE {}

\* C30: once a file whose type is in the registry has been decoded, the
\* header-time column and the fields marked as millisecond POSIX timestamps
\* are converted to timestamps in the table.
C30_TimestampsConverted ==
    LET plf_info   == parse_plf_filestring(_log_filepath)
        dtype_info == lookup(_parse_proto(Text(blocks)).dict, plf_info.type)
    IN  (csvExists /\ ~plf_info.raised /\ dtype_info # None) =>
            /\ "hdrTime" \in converted
            /\ PosixFields(dtype_info) \subseteq converted

(***************************************************************************)
(* Parameter values.                                                       *)
(***************************************************************************)
\* C31: the value extracted for a parameter is its source text with every
\* maximal run of blanks and newlines replaced by one blank, trimmed at
\* both ends.
C31_WhitespaceCollapsed ==
    gpc = "done" => data = Strip(CollapseSpace(capture))

(***************************************************************************)
(* The built registry.                                                     *)
(***************************************************************************)
\* C32: the registry is immutable once built: a lookup or a get_socket
\* call, for a known or an unknown type and for any role, leaves the key
\* set of the mapping and the Name, Port, Channel and Summary of every
\* entry as they were.
C32_RegistryImmutable ==
    [][rpc = "built" =>
        /\ DOMAIN message_dict' = DOMAIN message_dict
        /\ \A k \in DOMAIN message_dict :
            /\ message_dict'[k].Name = message_dict[k].Name
            /\ message_dict'[k].Port = message_dict[k].Port
            /\ message_dict'[k].Channel = message_dict[k].Channel
            /\ message_dict'[k].Summary = message_dict[k].Summary]_vars

\* A built registry after a lookup of a type it does not hold and a
\* get_socket call for one it holds.
C32_Witness ==
    /\ rpc = "built"
    /\ Len(calls) = 2
    /\ calls[1].op = "lookup" /\ calls[1].message = "Trade"
    /\ calls[1].result = None
    /\ calls[2].op = "get_socket" /\ calls[2].message = "Order"
    /\ calls[2].result.kind = "PUB"
    /\ DOMAIN message_dict = {"Order", "Aggregate"}

(***************************************************************************)
(* Sessions without an endpoint.                                           *)
(***************************************************************************)
\* C33: a session whose get_socket call returned no socket never calls
\* unsubscribe, subscribe, recv_multipart or send_multipart on it: no step
\* of a TestSubscriber or TestPublisher ends in the AttributeError of a
\* call on None.
C33_AbsentEndpointNotUsed ==
    spc # "AttributeError" /\ ppc # "AttributeError"

(***************************************************************************)
(* The replay counter after a replay.                                      *)
(***************************************************************************)
\* C34: once the replay of a log of one or more frames is through and no
\* query was made before, getMessageCount reads the number of messages the
\* replay published; a query made after the replay zeroes the counter, so
\* that the query after it reads 0.
C34_CountAfterReplay ==
    [][(tpc = "done" /\ CompleteFrames(plf) # <<>>) =>
        /\ (qpc = "idle" /\ qpc' = "zero") =>
                /\ count' = _count
                /\ returned = <<>> => count' = Len(published)
        /\ (qpc = "zero" /\ qpc' = "idle") =>
                /\ returned' = Append(returned, count)
                /\ _count' = 0]_vars

(***************************************************************************)
(* The decision to sleep.                                                  *)
(***************************************************************************)
\* C35: whether the replay sleeps between two consecutive frames depends on
\* the gap of their header times alone, at every rate: it sleeps exactly
\* when the gap is more than 2000 ms (not at 2000 ms, and not at a gap of
\* zero or less), and no sleep is negative.
C35_SleepDecidedByGap ==
    \A i \in 1..Len(pauses) :
        LET next == IF i < Len(published) THEN TimeOf(published[i + 1])
                    ELSE proto_obj.utc_time
        IN  /\ pauses[i] >= 0
            /\ pauses[i] > 0 <=> next - TimeOf(published[i]) > 2000

\* At rate 2, a gap of exactly 2000 ms was not slept and the gap of 3000 ms
\* after it was.
C35_Witness ==
    /\ plf = LogOf(<<<<0>>, <<2>>, <<5>>>>)
    /\ _rate = 2
    /\ Len(published) = 3
    /\ pauses = <<0, 15000>>

(***************************************************************************)
(* One message per frame.                                                  *)
(***************************************************************************)
\* C36: a replay publishes one message per frame of its log: a replay that
\* is through a log of complete frames has published as many messages as
\* the log has frames, and the replay of a log that is empty or begins
\* with a zero length publishes nothing.
C36_OneMessagePerFrame ==
    /\ (tpc = "done" /\ IsWholeLog(plf)) =>
            Len(published) = Len(CompleteFrames(plf))
    /\ FromBytes(Read(plf, LenBytes)) = 0 => published = <<>>

(***************************************************************************)
(* Frames the scan does not reach.                                         *)
(***************************************************************************)
\* The frames of a file by their length prefixes alone, those of length
\* zero included, up to the end of the file or the frame it ends in the
\* middle of.
RECURSIVE WrittenFrames(_)
WrittenFrames(bytes) ==
    IF Len(bytes) < LenBytes THEN <<>>
    ELSE LET L == FromBytes(Read(bytes, LenBytes))
         IN  IF Len(bytes) < LenBytes + L THEN <<>>
             ELSE <<SubSeq(bytes, LenBytes + 1, LenBytes + L)>>
                    \o WrittenFrames(SubSeq(bytes, LenBytes + L + 1, Len(bytes)))

\* C37: the writer appends no frame that a reader takes for the end of the
\* stream: no frame of length zero stands before later frames, and the
\* sequential scan of the file reaches every frame the session appended.
C37_NoEndOfStreamFrame ==
    LET fs == WrittenFrames(plf)
    IN  /\ \A i \in 1..(Len(fs) - 1) : fs[i] # <<>>
        /\ CompleteFrames(plf) = fs

\* C38: a normal return of run is no exit from the reconnect loop. The
\* finally clause entered when run returned without raising is left (other
\* than by a user interrupt) only by a new invocation of run, after the full
\* 3 s delay, as after an error.
C38_ReturnReconnects ==
    [][\A t \in Threads :
         (/\ pc[t] = "finally"
          /\ cause[t] = "return"
          /\ pc'[t] \notin {"finally", "exited"})
         => (/\ slept[t] = ReconnectDelay
             /\ pc'[t] = "running"
             /\ runs'[t] = runs[t] + 1
             /\ depth'[t] = depth[t] + 1)]_vars

\* C39: a log file is append-only across writer sessions. No step of any
\* session removes a file of the log directory or changes a byte written to
\* it: the bytes a file held before the step are the first bytes it holds
\* after, also with two sessions of one message type constructed within
\* the same second.
C39_AppendOnlyAcrossSessions ==
    [][\A stem \in DOMAIN LogFiles :
         /\ stem \in DOMAIN LogFiles'
         /\ IsPrefix(LogFiles[stem], LogFiles'[stem])]_vars


====
